---- MODULE Spec2Model ----
(***************************************************************************)
(* Model of the robot_viewer backend's log-window extraction and           *)
(* correlation engine:                                                     *)
(*   - fetch_all_order_logs, in its two implementations                    *)
(*     (app/infrastructure/filesystem/log_window_extractor.py and          *)
(*     app/main.py),                                                       *)
(*   - find_suitable_files (file_finder.py),                               *)
(*   - OrdersStrategy.fetch_order and SauceWeightStrategy.fetch_points,    *)
(*   - fetch_order_data and get_order_telemetry (main.py),                 *)
(*   - one call made twice on an unchanged file,                           *)
(*   - BaseFileSelector.select (file_selectors.py),                        *)
(*   - the two implementations of fetch_all_order_logs on one input.       *)
(* Each subsystem has its own specification (SpecLogs, SpecFinder,         *)
(* SpecCorrelate, SpecRequest, SpecRepeat, SpecSelect, SpecPair); the      *)
(* variables of the other subsystems stay idle.                            *)
(***************************************************************************)
EXTENDS Integers, Sequences, FiniteSets, TLC

VARIABLES
    \* ---- fetch_all_order_logs ----
    impl,           \* which implementation runs: "extractor", "main", "both"
    order_id,       \* order start instant (epoch seconds)
    end_order_ts,   \* order end instant (epoch seconds)
    log_files,      \* the mapping's keys in iteration order (sequence of rel paths)
    fidx,           \* index in log_files of the file being processed
    result,         \* rel path -> [path, text]
    lpc,            \* "next_file" | "scanning" | "done"
    file_lines,     \* lines the open file has delivered so far
    scan,           \* locals of the scan of the current file
    raised,         \* rel path -> the error its open or read raised
    \* ---- find_suitable_files ----
    root_exists,    \* does DATA_DIR/<machine_id>/logs exist
    root,           \* entries of the log root, in iterdir() order
    tree,           \* set of <<subdir, entry>>: the entries of the subdirectories
    timestamp,      \* the target instant (epoch seconds)
    didx,           \* index in the list of subdirectories
    found,          \* the result dict: its keys (rel paths) in insertion order
    fpc,            \* "start" | "subdirs" | "done" | "FileNotFoundError" | "ValueError"
    \* ---- OrdersStrategy.fetch_order, SauceWeightStrategy.fetch_points ----
    call,           \* which strategy runs: "fetch_order" or "fetch_points"
    req_id,         \* fetch_order's order_id (in tenths: 125 is 12.5)
    order,          \* fetch_points' order: [uid, start_time, end_time]
    order_data,     \* fetch_order's dict of the fields seen so far
    clines,         \* lines the strategy has read from its file so far
    ceof,           \* the strategy has read its file to the end
    cpc,            \* "scanning" | "returned" | "raised"
    cret,           \* the value returned: <<>> (None, or no points), <<order>>, points
    cerr,           \* the exception that left the call, or "none"
    \* ---- fetch_order_data, get_order_telemetry ----
    found_files,    \* files: the mapping of discovered files (its rel paths)
    order_telemetry,\* None, or <<record>>: the start_order record of the order
    order_info,     \* None, or <<order>>: what fetch_order returned
    sauce_points,   \* the points fetch_points returned
    video_url,      \* None, or <<url>>: what find_video_file returned
    video_failure,  \* "none" | "list" | "sign": the storage call that raised
    log_window,     \* None, or <<<<window_start, window_end>>>> of the log scan
    all_order_logs, \* the rel paths that got an entry in the logs
    motors,         \* the motors map of the response
    qpc,            \* the step of fetch_order_data that comes next
    response,       \* "pending" | "aggregate" | "not_found" | "raised"
    qerr,           \* the exception that left the request, or "none"
    \* ---- one call made twice on an unchanged file ----
    rkind,          \* "extractor" | "main" | "fetch_order" | "fetch_points"
    rargs,          \* the arguments of the call: [rel, id, order]
    rfile,          \* the lines of the source file
    rpos,           \* how many lines the running call has read
    rlocals,        \* the locals of the running (or last) call
    rrunning,       \* a call is running
    routs,          \* the outputs of the calls that ended, in order
    \* ---- BaseFileSelector.select ----
    selector,       \* the class select is called on
    sfiles,         \* its argument: the mapping, in iteration order
    spos,           \* how many entries the for loop has visited
    spc,            \* "idle" | "loop" | "returned"
    sret,           \* the value returned
    \* ---- both implementations of fetch_all_order_logs on one input ----
    main_scan,      \* the locals of main.py's scan of the current file
    main_result,    \* the result dict of main.py's implementation
    over_ceiling    \* the files that went over a ceiling of the reader

logVars == <<impl, order_id, end_order_ts, log_files, fidx, result, lpc,
             file_lines, scan, raised>>

finderVars == <<root_exists, root, tree, timestamp, didx, found, fpc>>

corrVars == <<call, req_id, order, order_data, clines, ceof, cpc, cret, cerr>>

reqVars == <<found_files, order_telemetry, order_info, sauce_points, video_url,
             video_failure, log_window, all_order_logs, motors, qpc, response,
             qerr>>

repeatVars == <<rkind, rargs, rfile, rpos, rlocals, rrunning, routs>>

selVars == <<selector, sfiles, spos, spc, sret>>

pairVars == <<main_scan, main_result, over_ceiling>>

vars == <<logVars, finderVars, corrVars, reqVars, repeatVars, selVars,
          pairVars>>

\* what the actions of one subsystem leave alone
notLogVars == <<finderVars, corrVars, reqVars, repeatVars, selVars,
  pairVars>>
notFinderVars == <<logVars, corrVars, reqVars, repeatVars, selVars,
  pairVars>>
notCorrVars == <<logVars, finderVars, reqVars, repeatVars, selVars,
  pairVars>>
notReqVars == <<logVars, finderVars, corrVars, repeatVars, selVars,
  pairVars>>
notRepeatVars == <<logVars, finderVars, corrVars, reqVars, selVars,
  pairVars>>
notSelVars == <<logVars, finderVars, corrVars, reqVars, repeatVars,
  pairVars>>
notPairVars == <<finderVars, corrVars, reqVars, repeatVars, selVars>>

(***************************************************************************)
(* Optional values: None is the empty sequence, Some(x) a one-element one. *)
(***************************************************************************)
None == <<>>
Some(x) == <<x>>

(***************************************************************************)
(* Bounds of the model.                                                    *)
(***************************************************************************)
\* longest file the environment delivers when the mapping holds one file
MaxFileLen == 6
\* longest file the environment delivers when the mapping holds several files
MaxShortLen == 2

(***************************************************************************)
(* Log lines.  A line is what parse_timestamp and len() see of it: the     *)
(* leading token ("ts": a timestamp that parses, written epoch value `at`; *)
(* "badcal": matches TS_PATTERN but is no calendar date; "text": no match) *)
(* and its length.                                                         *)
(***************************************************************************)
OrderIds == {100000}

\* Safety limits of log_window_extractor.py, scaled down for exploration
\* (source: 10 MiB and 200_000 lines); line lengths are scaled with them.
MAX_BYTES_PER_FILE == 8
MAX_LINES_PER_FILE == 5

\* offsets (seconds from the order start) of the timestamps written in files
StampDeltas == {-10, -6, -4, 1, 20}

OFFSET_PREFIXES == {"subapps", "console"}

\* rel_path.startswith(OFFSET_PREFIXES): the first path component decides,
\* because both prefixes end with "/".
HasOffsetPrefix(rel) == rel[1] \in OFFSET_PREFIXES

\* mutant of OffsetHours: the offset has the opposite sign
OffsetHoursEast(rel) == IF HasOffsetPrefix(rel) THEN 8 ELSE 0

\* offset_h = -8.0 if rel_path.startswith(OFFSET_PREFIXES) else 0.0
OffsetHours(rel) == IF HasOffsetPrefix(rel) THEN -8 ELSE 0

StampedLine(at) == [tok |-> "ts", at |-> at, len |-> 1]
PlainLine == [tok |-> "text", at |-> 0, len |-> 3]
BadCalLine == [tok |-> "badcal", at |-> 0, len |-> 1]

\* the lines the environment may write into file rel for order start t: the
\* sources under an offset prefix write their clock 8 hours behind UTC.
\* The short files of a mapping of several files also hold lines whose
\* leading token is no calendar date.
LinesOf(rel, t, several) ==
    {StampedLine(t + d + OffsetHours(rel) * 3600) : d \in StampDeltas}
        \cup {PlainLine} \cup (IF several THEN {BadCalLine} ELSE {})

RelPaths == {<<"console", "app.txt">>, <<"orders", "2024-01-01_orders.txt">>}

\* str(file_path) of the Path the mapping holds for rel
PathOf(rel) == <<"DATA_DIR", "logs", rel[1], rel[2]>>

(***************************************************************************)
(* parse_timestamp                                                         *)
(***************************************************************************)
parse_timestamp(line, offset_h) ==
    IF line.tok = "text" THEN None
    ELSE IF line.tok = "badcal" THEN None
    ELSE Some(line.at - offset_h * 3600)

(***************************************************************************)
(* Texts and their encoding.                                               *)
(***************************************************************************)
WindowText(lines) == [kind |-> "window", lines |-> lines, err |-> "none"]
NoWindowText == [kind |-> "no_window", lines |-> <<>>, err |-> "none"]
FailedText(e) == [kind |-> "failed", lines |-> <<>>, err |-> e]

\* base64.b64encode(text.encode("utf-8")).decode("ascii")
B64(text) == [b64 |-> text]

(***************************************************************************)
(* The scan of one file.                                                   *)
(***************************************************************************)
\* lines_in_window, last_ts, found_any_ts: the locals of both implementations;
\* line_count, total_bytes: the counters of iter_lines_with_limits (unused by
\* main.py); yielded: how many lines reached the window scan; stop: the loop
\* was left by a break.
FreshScan ==
    [lines_in_window |-> <<>>, last_ts |-> None, found_any_ts |-> FALSE,
     line_count |-> 0, total_bytes |-> 0, yielded |-> 0, stop |-> FALSE]

InWindow(ts, ws, we) == ts # None /\ ws <= ts[1] /\ ts[1] <= we

\* iter_lines_with_limits: does the reader yield this line?
LimitsAllow(line_count, total_bytes) ==
    /\ line_count <= MAX_LINES_PER_FILE
    /\ total_bytes <= MAX_BYTES_PER_FILE

\* mutant of WindowStep: a line is kept for its own timestamp only
WindowStepOwnStamp(s, line, ws, we, offset_h) ==
    LET ts == parse_timestamp(line, offset_h)
        last == IF ts # None THEN ts ELSE s.last_ts
        seen == s.found_any_ts \/ ts # None
        s1 == [s EXCEPT !.last_ts = last, !.found_any_ts = seen,
                        !.yielded = s.yielded + 1]
    IN  IF ts # None /\ ts[1] < ws THEN s1
        ELSE IF ts # None /\ ts[1] > we THEN [s1 EXCEPT !.stop = TRUE]
        ELSE IF InWindow(ts, ws, we)
             THEN [s1 EXCEPT !.lines_in_window = Append(s.lines_in_window, line)]
             ELSE s1

\* mutant of WindowStep: a timestamp past the window does not end the scan
WindowStepNoBreak(s, line, ws, we, offset_h) ==
    LET ts == parse_timestamp(line, offset_h)
        last == IF ts # None THEN ts ELSE s.last_ts
        seen == s.found_any_ts \/ ts # None
        s1 == [s EXCEPT !.last_ts = last, !.found_any_ts = seen,
                        !.yielded = s.yielded + 1]
    IN  IF InWindow(last, ws, we)
        THEN [s1 EXCEPT !.lines_in_window = Append(s.lines_in_window, line)]
        ELSE s1

\* body of the for loop of extract_log_window for one yielded line
WindowStep(s, line, ws, we, offset_h) ==
    LET ts == parse_timestamp(line, offset_h)
        last == IF ts # None THEN ts ELSE s.last_ts
        seen == s.found_any_ts \/ ts # None
        s1 == [s EXCEPT !.last_ts = last, !.found_any_ts = seen,
                        !.yielded = s.yielded + 1]
    IN  IF ts # None /\ ts[1] < ws THEN s1
        ELSE IF ts # None /\ ts[1] > we THEN [s1 EXCEPT !.stop = TRUE]
        ELSE IF InWindow(last, ws, we)
             THEN [s1 EXCEPT !.lines_in_window = Append(s.lines_in_window, line)]
             ELSE s1

\* one line read from the file by extract_log_window through
\* iter_lines_with_limits
ExtractorStep(s, line, ws, we, offset_h) ==
    LET lc == s.line_count + 1
        tb == s.total_bytes + line.len
        s0 == [s EXCEPT !.line_count = lc, !.total_bytes = tb]
    IN  IF LimitsAllow(lc, tb)
        THEN WindowStep(s0, line, ws, we, offset_h)
        ELSE [s0 EXCEPT !.stop = TRUE]

\* mutant of MainStep: a line without a timestamp of its own is not kept
MainStepOwnStamp(s, line, ws, we, offset_h) ==
    LET ts == parse_timestamp(line, offset_h)
        last == IF ts # None THEN ts ELSE s.last_ts
        seen == s.found_any_ts \/ ts # None
        s1 == [s EXCEPT !.last_ts = last, !.found_any_ts = seen,
                        !.yielded = s.yielded + 1]
    IN  IF InWindow(ts, ws, we)
        THEN [s1 EXCEPT !.lines_in_window = Append(s.lines_in_window, line)]
        ELSE IF last # None /\ last[1] > we THEN [s1 EXCEPT !.stop = TRUE]
        ELSE s1

\* mutant of MainStep: the scan goes on past the end of the window
MainStepNoBreak(s, line, ws, we, offset_h) ==
    LET ts == parse_timestamp(line, offset_h)
        last == IF ts # None THEN ts ELSE s.last_ts
        seen == s.found_any_ts \/ ts # None
        s1 == [s EXCEPT !.last_ts = last, !.found_any_ts = seen,
                        !.yielded = s.yielded + 1]
    IN  IF InWindow(last, ws, we)
        THEN [s1 EXCEPT !.lines_in_window = Append(s.lines_in_window, line)]
        ELSE s1

\* one line read from the file by main.fetch_all_order_logs
MainStep(s, line, ws, we, offset_h) ==
    LET ts == parse_timestamp(line, offset_h)
        last == IF ts # None THEN ts ELSE s.last_ts
        seen == s.found_any_ts \/ ts # None
        s1 == [s EXCEPT !.last_ts = last, !.found_any_ts = seen,
                        !.yielded = s.yielded + 1]
    IN  IF InWindow(last, ws, we)
        THEN [s1 EXCEPT !.lines_in_window = Append(s.lines_in_window, line)]
        ELSE IF last # None /\ last[1] > we THEN [s1 EXCEPT !.stop = TRUE]
        ELSE s1

\* mutant of ScanText: the retained lines are joined even when there are none
ScanTextJoined(s) == WindowText(s.lines_in_window)

\* the text of a scanned file
ScanText(s) ==
    IF s.found_any_ts /\ s.lines_in_window # <<>>
    THEN WindowText(s.lines_in_window)
    ELSE NoWindowText

Entry(rel, text) == [path |-> PathOf(rel), text |-> B64(text)]

Put(res, rel, entry) ==
    [r \in DOMAIN res \cup {rel} |-> IF r = rel THEN entry ELSE res[r]]

\* what the except clause of each implementation leaves in result
ExtractorOnError(res, rel, e) == Put(res, rel, Entry(rel, FailedText(e)))
MainOnError(res, rel, e) == res

window_start == order_id - 5
window_end == end_order_ts + 5

CurRel == log_files[fidx]

FileCap == IF Len(log_files) <= 1 THEN MaxFileLen ELSE MaxShortLen

(***************************************************************************)
(* fetch_all_order_logs as a state machine.                                *)
(***************************************************************************)
\* the mappings handed to fetch_all_order_logs
Mappings ==
    {<<>>} \cup {<<r>> : r \in RelPaths}
           \cup {m \in RelPaths \X RelPaths : m[1] # m[2]}

LogInit ==
    /\ impl \in {"extractor", "main"}
    /\ order_id \in OrderIds
    /\ end_order_ts = order_id
    /\ log_files \in Mappings
    /\ fidx = 1
    /\ result = << >>
    /\ lpc = IF log_files = <<>> THEN "done" ELSE "next_file"
    /\ file_lines = <<>>
    /\ scan = FreshScan
    /\ raised = << >>

\* after the last file of the mapping the function returns result
AfterFile == IF fidx = Len(log_files) THEN "done" ELSE "next_file"

\* the scan of the current file is over: store its entry, go to the next file
FinishFile(s) ==
    /\ result' = Put(result, CurRel, Entry(CurRel, ScanText(s)))
    /\ fidx' = fidx + 1
    /\ lpc' = AfterFile
    /\ scan' = s

\* the loop over log_files takes the next file and opens it
OpenFile ==
    /\ UNCHANGED notLogVars
    /\ lpc = "next_file"
    /\ fidx <= Len(log_files)
    /\ lpc' = "scanning"
    /\ scan' = FreshScan
    /\ file_lines' = <<>>
    /\ UNCHANGED <<impl, order_id, end_order_ts, log_files, fidx, result,
                   raised>>

\* the file delivers one more line
ReadLine ==
    /\ UNCHANGED notLogVars
    /\ lpc = "scanning"
    /\ Len(file_lines) < FileCap
    /\ \E line \in LinesOf(CurRel, order_id, Len(log_files) > 1) :
        LET s == IF impl = "extractor"
                 THEN ExtractorStep(scan, line, window_start, window_end,
                                    OffsetHours(CurRel))
                 ELSE MainStep(scan, line, window_start, window_end,
                               OffsetHours(CurRel))
        IN  /\ file_lines' = Append(file_lines, line)
            /\ IF s.stop
               THEN FinishFile(s)
               ELSE /\ scan' = s
                    /\ UNCHANGED <<fidx, result, lpc>>
    /\ UNCHANGED <<impl, order_id, end_order_ts, log_files, raised>>

\* the file is exhausted
EndOfFile ==
    /\ UNCHANGED notLogVars
    /\ lpc = "scanning"
    /\ FinishFile(scan)
    /\ UNCHANGED <<impl, order_id, end_order_ts, log_files, file_lines,
                   raised>>

\* opening or reading the file raises (I/O error, decode error)
ReadError ==
    /\ UNCHANGED notLogVars
    /\ lpc = "scanning"
    /\ \E e \in {"io_error", "decode_error"} :
        /\ result' = IF impl = "extractor"
                      THEN ExtractorOnError(result, CurRel, e)
                      ELSE MainOnError(result, CurRel, e)
        /\ raised' = Put(raised, CurRel, e)
    /\ fidx' = fidx + 1
    /\ lpc' = AfterFile
    /\ scan' = [scan EXCEPT !.stop = TRUE]
    /\ UNCHANGED <<impl, order_id, end_order_ts, log_files, file_lines>>

(***************************************************************************)
(* Helpers for the properties.                                             *)
(***************************************************************************)
Range(f) == {f[i] : i \in DOMAIN f}

RECURSIVE SumLen(_)
SumLen(lines) ==
    IF lines = <<>> THEN 0 ELSE Head(lines).len + SumLen(Tail(lines))

\* the file whose scan is running or was the last to end
LastRel == IF lpc = "scanning" THEN CurRel ELSE log_files[fidx - 1]

\* the lines of the current file that reached the window scan
YieldedLines == SubSeq(file_lines, 1, scan.yielded)

FinderIdle ==
    /\ root_exists = FALSE
    /\ root = <<>>
    /\ tree = {}
    /\ timestamp = 0
    /\ didx = 0
    /\ found = <<>>
    /\ fpc = "idle"

CorrIdle ==
    /\ call = "idle"
    /\ req_id = 0
    /\ order = << >>
    /\ order_data = << >>
    /\ clines = <<>>
    /\ ceof = FALSE
    /\ cpc = "idle"
    /\ cret = <<>>
    /\ cerr = "none"

ReqIdle ==
    /\ found_files = {}
    /\ order_telemetry = <<>>
    /\ order_info = <<>>
    /\ sauce_points = <<>>
    /\ video_url = <<>>
    /\ video_failure = "none"
    /\ log_window = <<>>
    /\ all_order_logs = {}
    /\ motors = << >>
    /\ qpc = "idle"
    /\ response = "idle"
    /\ qerr = "none"

RepeatIdle ==
    /\ rkind = "idle"
    /\ rargs = << >>
    /\ rfile = <<>>
    /\ rpos = 0
    /\ rlocals = << >>
    /\ rrunning = FALSE
    /\ routs = <<>>

SelIdle ==
    /\ selector = "idle"
    /\ sfiles = <<>>
    /\ spos = 0
    /\ spc = "idle"
    /\ sret = <<>>

PairIdle ==
    /\ main_scan = << >>
    /\ main_result = << >>
    /\ over_ceiling = {}

InitLogs ==
    LogInit /\ FinderIdle /\ CorrIdle /\ ReqIdle /\ RepeatIdle /\ SelIdle
            /\ PairIdle

LogNext == OpenFile \/ ReadLine \/ EndOfFile \/ ReadError

SpecLogs == InitLogs /\ [][LogNext]_vars

(***************************************************************************)
(* Properties of fetch_all_order_logs (checked under SpecLogs).            *)
(***************************************************************************)
\* the example file: five lines whose timestamps, as the extractor reads
\* them, are T-10, T-6, T-4, T+1, T+20 (T the order start; the window is
\* [T-5, T+5] because end_order_ts = order_id)
C1Deltas == <<-10, -6, -4, 1, 20>>
C1File(rel) ==
    [i \in 1..5 |->
        StampedLine(order_id + C1Deltas[i] + OffsetHours(rel) * 3600)]

C1_StartsWithExample ==
    /\ Len(file_lines) >= 5
    /\ SubSeq(file_lines, 1, 5) = C1File(LastRel)

C1_Returns(from, to) ==
    C1_StartsWithExample =>
        /\ file_lines = C1File(LastRel)
        /\ lpc # "scanning"
        /\ LastRel \in DOMAIN result
        /\ result[LastRel].text
              = B64(WindowText(SubSeq(C1File(LastRel), from, to)))

\* C1 as stated: of the file with timestamps T-10, T-6, T-4, T+1, T+20 and
\* window [T-5, T+5] exactly the middle three lines (T-6, T-4, T+1) are
\* returned, and no line after the T+20 line is read.
C1_MiddleThreeLines == C1_Returns(2, 4)

\* C1 amended: of that file exactly the two lines whose timestamps lie in
\* [T-5, T+5] (T-4 and T+1) are returned, in file order, and the scan stops
\* at the T+20 line: no line after it is read.
C1_LinesInWindow == C1_Returns(3, 4)

C1_ExampleScanned == lpc = "done" /\ C1_StartsWithExample

\* C2: when fetch_all_order_logs returns, the result has exactly one entry
\* per rel path of the mapping, with the file's path; the entry of a file
\* whose read raised is the placeholder text that embeds the error.
C2_OneEntryPerPath ==
    lpc = "done" =>
        /\ DOMAIN result = Range(log_files)
        /\ \A rel \in DOMAIN result : result[rel].path = PathOf(rel)
        /\ \A rel \in DOMAIN raised :
              /\ rel \in DOMAIN result
              /\ result[rel].text = B64(FailedText(raised[rel]))

\* C3: the scan of one file hands at most MAX_LINES_PER_FILE lines and at
\* most MAX_BYTES_PER_FILE cumulative bytes to the window scan, and a scan
\* that ended without an error returns the lines retained so far.
C3_CeilingsHold ==
    /\ scan.yielded <= MAX_LINES_PER_FILE
    /\ SumLen(YieldedLines) <= MAX_BYTES_PER_FILE
    /\ (lpc # "scanning" /\ fidx > 1 /\ LastRel \notin DOMAIN raised) =>
          /\ LastRel \in DOMAIN result
          /\ result[LastRel].text = B64(ScanText(scan))

\* the ceilings are observed by the extractor module's implementation
ExtractorCeilings == impl = "extractor" => C3_CeilingsHold

\* the timestamp the scan reads on line i of the current file, or None
StampAt(i) == parse_timestamp(file_lines[i], OffsetHours(LastRel))

\* the most recently seen timestamp at line i: that of the last line up to
\* i that carries one, or None
RECURSIVE LastStampAt(_)
LastStampAt(i) ==
    IF i = 0 THEN None
    ELSE IF StampAt(i) # None THEN StampAt(i)
    ELSE LastStampAt(i - 1)

\* line i is to be retained: a timestamp was seen and the most recent one
\* lies in [order_start - 5, order_end + 5]
ToRetain(i) ==
    LET stamp == LastStampAt(i)
    IN  /\ stamp # None
        /\ order_id - 5 <= stamp[1]
        /\ stamp[1] <= end_order_ts + 5

\* the lines of the first n lines of the file that are to be retained, in
\* file order
RECURSIVE RetainedUpTo(_)
RetainedUpTo(n) ==
    IF n = 0 THEN <<>>
    ELSE RetainedUpTo(n - 1)
            \o (IF ToRetain(n) THEN <<file_lines[n]>> ELSE <<>>)

\* C16: of the lines handed to the scan of a file, exactly those are
\* retained at which a timestamp has been seen and the most recently seen
\* one lies in the window, in file order; so no line before the first
\* timestamp is retained and a line without timestamp goes with the
\* preceding timestamp.
C16_RetainedByLastStamp ==
    lpc # "idle" => scan.lines_in_window = RetainedUpTo(scan.yielded)

\* a line before the first timestamp is left out and a line without
\* timestamp after a timestamp of the window is retained
C16_ContinuationRetained ==
    /\ lpc = "scanning"
    /\ Len(file_lines) = 3
    /\ file_lines[1] = PlainLine
    /\ StampAt(2) # None
    /\ file_lines[3] = PlainLine
    /\ scan.lines_in_window = <<file_lines[2], PlainLine>>

\* line i of the current file carries a timestamp past the window
PastWindow(i) == StampAt(i) # None /\ StampAt(i)[1] > window_end
BeforeWindow(i) == StampAt(i) # None /\ StampAt(i)[1] < window_start

ScanReturned == lpc \notin {"idle", "scanning"} /\ fidx > 1
                    /\ LastRel \notin DOMAIN raised

\* C18: the text returned for a file is the two-line placeholder exactly
\* when no line was retained, otherwise the retained lines joined in file
\* order, which is no empty text; path is the path of the file.
C18_PlaceholderOrLines ==
    ScanReturned =>
        /\ LastRel \in DOMAIN result
        /\ result[LastRel].path = PathOf(LastRel)
        /\ result[LastRel].text =
              B64(IF scan.lines_in_window = <<>> THEN NoWindowText
                  ELSE WindowText(scan.lines_in_window))
        /\ scan.lines_in_window # <<>> =>
              SumLen(result[LastRel].text.b64.lines) > 0

\* a file with timestamps, none of them in the window, got the placeholder
C18_NothingRetained ==
    /\ ScanReturned
    /\ scan.found_any_ts
    /\ scan.lines_in_window = <<>>
    /\ result[LastRel].text = B64(NoWindowText)

(***************************************************************************)
(* find_suitable_files                                                     *)
(*                                                                         *)
(* A file name is what the regular expression and the sort see of it:      *)
(* whether it has the shape YYYY-MM-DD_<suffix>.txt[.gz] (pattern), its    *)
(* date token (a day number; day 0 stands for a token such as 2024-00-00   *)
(* that has the shape of a date and is none), its suffix and its           *)
(* extension.                                                              *)
(***************************************************************************)
\* most entries the subdirectories hold together
MaxFiles == 3

Days == {1, 2, 3}
Suffixes == {"orders", "start_order"}
SubdirNames == {"orders", "start_order"}

\* target instants: the start, the last second and an inner hour of a day
Timestamps == {1 * 86400, 2 * 86400 + 86399, 3 * 86400 + 3600}

\* datetime.fromtimestamp(timestamp, tz=timezone.utc).date()
DateOf(ts) == ts \div 86400

FileName(d, sfx, gz) == [pattern |-> TRUE, date |-> d, suffix |-> sfx, gz |-> gz]
OtherName == [pattern |-> FALSE, date |-> 0, suffix |-> "README", gz |-> FALSE]

\* datetime.strptime(match.group(1), "%Y-%m-%d") succeeds
IsCalendarDate(d) == d \in Days

\* the entries a subdirectory may hold: regular files of every date, suffix
\* and extension, a file that is off the naming convention, a file whose date
\* token is no calendar date, and a directory named like a log file
Universe ==
    {[name |-> FileName(d, sfx, gz), is_file |-> TRUE] :
        d \in Days, sfx \in Suffixes, gz \in BOOLEAN}
    \cup {[name |-> OtherName, is_file |-> TRUE],
          [name |-> FileName(0, "orders", FALSE), is_file |-> TRUE],
          [name |-> FileName(3, "orders", TRUE), is_file |-> FALSE]}

RootDir(n) == [name |-> n, is_dir |-> TRUE]
RootFile(n) == [name |-> n, is_dir |-> FALSE]

\* the listings of the log root, in the order iterdir() yields them
RootListings ==
    {<<>>,
     <<RootDir("orders")>>,
     <<RootDir("orders"), RootDir("start_order")>>,
     <<RootFile("latest.log"), RootDir("start_order"), RootDir("orders")>>}

RECURSIVE SubsetsUpTo(_, _)
SubsetsUpTo(S, k) ==
    IF k = 0 THEN {{}}
    ELSE LET smaller == SubsetsUpTo(S, k - 1)
         IN  smaller \cup {t \cup {x} : t \in smaller, x \in S}

\* within a directory names are unique
UniqueNames(t) ==
    \A a \in t, b \in t : (a[1] = b[1] /\ a[2].name = b[2].name) => a = b

\* [d for d in logs_base.iterdir() if d.is_dir()]
SubdirsOf(listing) == SelectSeq(listing, LAMBDA d : d.is_dir)

Trees(listing) ==
    {t \in SubsetsUpTo({d.name : d \in Range(SubdirsOf(listing))} \X Universe,
                       MaxFiles) : UniqueNames(t)}

Listing(sd) == {p[2] : p \in {q \in tree : q[1] = sd}}

(***************************************************************************)
(* sorted(subdir.iterdir(), reverse=True): paths of one directory compare  *)
(* by file name, character by character.  Names of the log-file shape      *)
(* start with the ten characters of the date, so they order by date, then  *)
(* by suffix, and "<date>_<suffix>.txt" is a proper prefix of              *)
(* "<date>_<suffix>.txt.gz" and so comes before it; a name that starts     *)
(* with a letter comes after every name that starts with a digit.          *)
(***************************************************************************)
SuffixRank(sfx) == IF sfx = "orders" THEN 1 ELSE 2

NameKey(n) ==
    IF n.pattern
    THEN n.date * 100 + SuffixRank(n.suffix) * 10 + (IF n.gz THEN 1 ELSE 0)
    ELSE 100000

\* mutant of SortedReverse: the listing is sorted without reverse=True
RECURSIVE SortedForward(_)
SortedForward(S) ==
    IF S = {} THEN <<>>
    ELSE LET m == CHOOSE e \in S :
                    \A o \in S : NameKey(e.name) <= NameKey(o.name)
         IN  <<m>> \o SortedForward(S \ {m})

RECURSIVE SortedReverse(_)
SortedReverse(S) ==
    IF S = {} THEN <<>>
    ELSE LET m == CHOOSE e \in S :
                    \A o \in S : NameKey(o.name) <= NameKey(e.name)
         IN  <<m>> \o SortedReverse(S \ {m})

\* mutant of VisitFile: the date of the file is not compared with the target
VisitFileAnyDate(acc, e, target_date) ==
    IF acc.error # "none" THEN acc
    ELSE IF ~e.is_file THEN acc
    ELSE IF ~e.name.pattern THEN acc
    ELSE IF ~IsCalendarDate(e.name.date)
         THEN [acc EXCEPT !.error = "ValueError"]
    ELSE IF \A i \in DOMAIN acc.latest_files :
                acc.latest_files[i].suffix # e.name.suffix
         THEN [acc EXCEPT !.latest_files = Append(acc.latest_files, e.name)]
    ELSE acc

\* body of the loop over the files of one subdirectory; latest_files is the
\* dict suffix -> path in insertion order
VisitFile(acc, e, target_date) ==
    IF acc.error # "none" THEN acc
    ELSE IF ~e.is_file THEN acc
    ELSE IF ~e.name.pattern THEN acc
    ELSE IF ~IsCalendarDate(e.name.date)
         THEN [acc EXCEPT !.error = "ValueError"]
    ELSE IF /\ e.name.date <= target_date
            /\ \A i \in DOMAIN acc.latest_files :
                  acc.latest_files[i].suffix # e.name.suffix
         THEN [acc EXCEPT !.latest_files = Append(acc.latest_files, e.name)]
    ELSE acc

RECURSIVE VisitAll(_, _, _)
VisitAll(acc, files, target_date) ==
    IF files = <<>> THEN acc
    ELSE VisitAll(VisitFile(acc, Head(files), target_date), Tail(files),
                  target_date)

LatestFiles(listing, target_date) ==
    VisitAll([latest_files |-> <<>>, error |-> "none"],
             SortedReverse(listing), target_date)

Subdirs == SubdirsOf(root)

FinderInit ==
    /\ root_exists \in BOOLEAN
    /\ root \in (IF root_exists THEN RootListings ELSE {<<>>})
    /\ tree \in Trees(root)
    /\ timestamp \in Timestamps
    /\ didx = 0
    /\ found = <<>>
    /\ fpc = "start"

\* logs_base.iterdir(): raises when the log root does not exist
ListRoot ==
    /\ UNCHANGED notFinderVars
    /\ fpc = "start"
    /\ IF ~root_exists
       THEN fpc' = "FileNotFoundError" /\ UNCHANGED didx
       ELSE /\ didx' = 1
            /\ fpc' = IF Subdirs = <<>> THEN "done" ELSE "subdirs"
    /\ UNCHANGED <<root_exists, root, tree, timestamp, found>>

\* one pass of the loop over the subdirectories
ScanSubdir ==
    /\ UNCHANGED notFinderVars
    /\ fpc = "subdirs"
    /\ LET sd == Subdirs[didx].name
           r == LatestFiles(Listing(sd), DateOf(timestamp))
       IN  IF r.error # "none"
           THEN fpc' = r.error /\ UNCHANGED <<didx, found>>
           ELSE /\ found' = found \o [i \in DOMAIN r.latest_files |->
                                          <<sd, r.latest_files[i]>>]
                /\ didx' = didx + 1
                /\ fpc' = IF didx = Len(Subdirs) THEN "done" ELSE "subdirs"
    /\ UNCHANGED <<root_exists, root, tree, timestamp>>

LogIdle ==
    /\ impl = "idle"
    /\ order_id = 0
    /\ end_order_ts = 0
    /\ log_files = <<>>
    /\ fidx = 0
    /\ result = << >>
    /\ lpc = "idle"
    /\ file_lines = <<>>
    /\ scan = FreshScan
    /\ raised = << >>

InitFinder ==
    FinderInit /\ LogIdle /\ CorrIdle /\ ReqIdle /\ RepeatIdle /\ SelIdle
               /\ PairIdle

FinderNext == ListRoot \/ ScanSubdir

SpecFinder == InitFinder /\ [][FinderNext]_vars

(***************************************************************************)
(* Properties of find_suitable_files (checked under SpecFinder).           *)
(***************************************************************************)
target_date == DateOf(timestamp)

\* the regular files of subdirectory sd that follow the naming convention
\* with suffix sfx and are dated on or before the target date
Candidates(sd, sfx) ==
    {e \in Listing(sd) :
        /\ e.is_file
        /\ e.name.pattern
        /\ e.name.suffix = sfx
        /\ IsCalendarDate(e.name.date)
        /\ e.name.date <= target_date}

\* the positions of the result that hold a file of sd with suffix sfx
FoundAt(sd, sfx) ==
    {i \in DOMAIN found : found[i][1] = sd /\ found[i][2].suffix = sfx}

\* C4: for each subdirectory and each suffix the result holds at most one
\* file; it is a file dated on or before the target date, no candidate is
\* dated later than it, and it is there whenever a candidate exists.
C4_LatestOnOrBefore ==
    fpc = "done" =>
        \A sd \in SubdirNames, sfx \in Suffixes :
            /\ Cardinality(FoundAt(sd, sfx)) <= 1
            /\ Candidates(sd, sfx) # {} => FoundAt(sd, sfx) # {}
            /\ \A i \in FoundAt(sd, sfx) :
                  /\ found[i][2] \in {c.name : c \in Candidates(sd, sfx)}
                  /\ found[i][2].date <= target_date
                  /\ \A c \in Candidates(sd, sfx) :
                        c.name.date <= found[i][2].date

\* the example: orders/ holds the plain file of day 1 and the compressed file
\* of day 3, the target is day 2, and the day 1 file is returned
C4_ExampleFound ==
    /\ fpc = "done"
    /\ target_date = 2
    /\ Listing("orders") =
          {[name |-> FileName(1, "orders", FALSE), is_file |-> TRUE],
           [name |-> FileName(3, "orders", TRUE), is_file |-> TRUE]}
    /\ <<"orders", FileName(1, "orders", FALSE)>> \in Range(found)

\* subdirectory sd holds the plain and the compressed file of date d and
\* suffix sfx, and d is the latest candidate date
BothVariantsLatest(sd, sfx, d) ==
    /\ [name |-> FileName(d, sfx, FALSE), is_file |-> TRUE] \in Candidates(sd, sfx)
    /\ [name |-> FileName(d, sfx, TRUE), is_file |-> TRUE] \in Candidates(sd, sfx)
    /\ \A c \in Candidates(sd, sfx) : c.name.date <= d

\* C5: when the plain and the compressed file of the same date and suffix
\* are both there and that date is the latest on or before the target date,
\* the compressed file is returned and the plain one is not.
C5_PrefersCompressed ==
    fpc = "done" =>
        \A sd \in SubdirNames, sfx \in Suffixes, d \in Days :
            BothVariantsLatest(sd, sfx, d) =>
                /\ <<sd, FileName(d, sfx, TRUE)>> \in Range(found)
                /\ <<sd, FileName(d, sfx, FALSE)>> \notin Range(found)

C5_BothVariantsSeen ==
    /\ fpc = "done"
    /\ \E sd \in SubdirNames, sfx \in Suffixes, d \in Days :
          /\ BothVariantsLatest(sd, sfx, d)
          /\ <<sd, FileName(d, sfx, TRUE)>> \in Range(found)

\* no subdirectory holds a regular file that follows the naming convention
\* and is dated on or before the target date (or carries no calendar date)
NoFileMatches ==
    \A sd \in SubdirNames :
        \A e \in Listing(sd) :
            ~(/\ e.is_file
              /\ e.name.pattern
              /\ (IsCalendarDate(e.name.date) => e.name.date <= target_date))

\* C6: when the log root does not exist, or exists and no file matches the
\* naming convention on or before the target date, discovery ends with an
\* empty mapping and not with an error.
C6_EmptyNotError ==
    (fpc \notin {"start", "subdirs"} /\ (~root_exists \/ NoFileMatches)) =>
        (fpc = "done" /\ found = <<>>)

\* the zero-match half of C6, which the code satisfies
C6_ZeroMatchesEmpty ==
    (fpc \notin {"start", "subdirs"} /\ root_exists /\ NoFileMatches) =>
        (fpc = "done" /\ found = <<>>)

(***************************************************************************)
(* OrdersStrategy.fetch_order                                              *)
(*                                                                         *)
(* A line of the order-events file is what the scan sees of it:            *)
(*   has_id      str(order_id) occurs in the line                          *)
(*   new_text    the text "action": "new_order" occurs in the line         *)
(*   end_text    the text end_screen_weight occurs in the line             *)
(*   when_ok     the date token and the HH, MM, SS substrings parse        *)
(*   json_ok     the payload after the 15-character prefix is valid JSON   *)
(*   action_new  the parsed body's action is new_order                     *)
(*   has_uid     the parsed body has a uid;  uid: its value (in tenths)    *)
(*   has_end_key the parsed body has the key end_screen_weight             *)
(*   at          the instant of the line (epoch seconds)                   *)
(***************************************************************************)
\* longest order-events file the environment delivers
MaxOrderLines == 3
\* longest sauce-weight file the environment delivers
MaxSauceLines == 3

OrderLine(id, nt, et, w, j, an, hu, u, ek, t) ==
    [has_id |-> id, new_text |-> nt, end_text |-> et, when_ok |-> w,
     json_ok |-> j, action_new |-> an, has_uid |-> hu, uid |-> u,
     has_end_key |-> ek, at |-> t]

Instants == {10, 20}

\* the uids of the lines in which str(order_id) occurs: the order's own, and
\* one whose decimal form contains it (112.5 contains 12.5)
UidsWithId(id) == {id, id + 1000}

NewOrderLine(u, t) ==
    OrderLine(TRUE, TRUE, FALSE, TRUE, TRUE, TRUE, TRUE, u, FALSE, t)
EndWeightLine(u, t) ==
    OrderLine(TRUE, FALSE, TRUE, TRUE, TRUE, FALSE, TRUE, u, TRUE, t)
\* one body with both the new_order action and the terminal marker
NewAndEndLine(u, t) ==
    OrderLine(TRUE, TRUE, TRUE, TRUE, TRUE, TRUE, TRUE, u, TRUE, t)
\* a line of another order
UnrelatedLine == OrderLine(FALSE, TRUE, FALSE, TRUE, TRUE, TRUE, TRUE, 0, FALSE, 10)
\* a line that mentions the order and carries no marker
NoMarkerLine == OrderLine(TRUE, FALSE, FALSE, TRUE, TRUE, FALSE, TRUE, 0, FALSE, 10)
\* candidate lines that are malformed
BadJsonLine == OrderLine(TRUE, TRUE, FALSE, TRUE, FALSE, FALSE, FALSE, 0, FALSE, 10)
BadWhenLine(u) == OrderLine(TRUE, TRUE, FALSE, FALSE, TRUE, TRUE, TRUE, u, FALSE, 10)
NoUidLine == OrderLine(TRUE, TRUE, FALSE, TRUE, TRUE, TRUE, FALSE, 0, FALSE, 10)

OrderLines(id) ==
    {NewOrderLine(u, t) : u \in UidsWithId(id), t \in Instants}
    \cup {EndWeightLine(u, t) : u \in UidsWithId(id), t \in Instants}
    \cup {NewAndEndLine(id, 20), UnrelatedLine, NoMarkerLine, BadJsonLine,
          BadWhenLine(id), NoUidLine}

Continue(od) == [order_data |-> od, outcome |-> "continue", value |-> <<>>, error |-> "none"]
Return(od, v) == [order_data |-> od, outcome |-> "return", value |-> v, error |-> "none"]
Raise(od, e) == [order_data |-> od, outcome |-> "raise", value |-> <<>>, error |-> e]

\* Order(**order_data) if order_data else None: the model validates that the
\* three required fields are there
MakeOrder(od) ==
    IF DOMAIN od = {} THEN Return(od, None)
    ELSE IF {"uid", "start_time", "end_time"} \subseteq DOMAIN od
    THEN Return(od, Some([uid |-> od["uid"], start_time |-> od["start_time"],
                          end_time |-> od["end_time"]]))
    ELSE Raise(od, "ValidationError")

\* the two cheap filters at the head of the loop
PassesFilters(line) == line.has_id /\ (line.new_text \/ line.end_text)

\* body of the loop of fetch_order for one line
FetchOrderStep(od, line) ==
    IF ~PassesFilters(line) THEN Continue(od)
    ELSE IF ~line.when_ok THEN Raise(od, "ValueError")
    ELSE IF ~line.json_ok THEN Continue(od)
    ELSE IF line.action_new /\ ~line.has_uid THEN Raise(od, "KeyError")
    ELSE LET od1 == IF line.action_new
                    THEN Put(Put(od, "uid", line.uid), "start_time", line.at)
                    ELSE od
         IN  IF line.has_end_key
             THEN MakeOrder(Put(od1, "end_time", line.at))
             ELSE Continue(od1)

\* mutant of FallThrough: a record is made of a start without an end
FallThroughPartial(od) ==
    IF "start_time" \in DOMAIN od
    THEN Some([uid |-> od["uid"], start_time |-> od["start_time"],
               end_time |-> od["start_time"]])
    ELSE None

\* the value of a call whose loop ends with the file: the function has no
\* return statement after the loop
FallThrough(od) == None

(***************************************************************************)
(* SauceWeightStrategy.fetch_points                                        *)
(*                                                                         *)
(* Times are counted in ticks of 0.1 ms, so that rounding to three         *)
(* decimals has something to round.  A line of the sauce-weight file is    *)
(* what the scan sees of it: whether it is valid JSON after the quote      *)
(* replacement, whether its time parses, the absolute instant of the       *)
(* record, and its two arrays.                                             *)
(***************************************************************************)
Ticks(seconds) == seconds * 10000

\* mutant of Round3: the time is cut to the millisecond below
Truncate3(t) == t - (t % 10)

\* round(t, 3): to the nearest millisecond (10 ticks), ties to the even one
Round3(t) ==
    LET q == t \div 10
        r == t % 10
    IN  IF r < 5 THEN q * 10
        ELSE IF r > 5 THEN (q + 1) * 10
        ELSE IF q % 2 = 0 THEN q * 10 ELSE (q + 1) * 10

SauceRecord(t, wpt, wp) ==
    [json_ok |-> TRUE, time_ok |-> TRUE, time |-> t,
     weight_point_time |-> wpt, weight_point |-> wp]
BadJsonRecord ==
    [json_ok |-> FALSE, time_ok |-> TRUE, time |-> 0,
     weight_point_time |-> <<>>, weight_point |-> <<>>]
BadTimeRecord ==
    [json_ok |-> TRUE, time_ok |-> FALSE, time |-> 0,
     weight_point_time |-> <<0>>, weight_point |-> <<10>>]

RecordTimes == {Ticks(99), Ticks(100), Ticks(150), Ticks(200), Ticks(201)}

\* offsets: whole seconds, a third of a millisecond apart, out of order, none
OffsetArrays ==
    {<<0, Ticks(1), Ticks(2)>>, <<0, 3, 6>>, <<Ticks(2), 0, Ticks(1)>>, <<>>}
ValueArrays == {<<10, 20, 30>>, <<10, 20>>}

SauceLines ==
    {SauceRecord(t, wpt, wp) :
        t \in RecordTimes, wpt \in OffsetArrays, wp \in ValueArrays}
    \cup {BadJsonRecord, BadTimeRecord}

Orders ==
    {[uid |-> 125, start_time |-> Ticks(100), end_time |-> Ticks(200)],
     [uid |-> 125, start_time |-> Ticks(150), end_time |-> Ticks(150)]}

Min(a, b) == IF a <= b THEN a ELSE b

MaxOf(xs) == CHOOSE m \in Range(xs) : \A x \in Range(xs) : x <= m

\* mutant of PointsOf: the times are not made relative to the order start
PointsOfAbsolute(o, rec, name_prefix) ==
    LET max_dt == MaxOf(rec.weight_point_time)
        process_start_ts == rec.time - max_dt
        n == Min(Len(rec.weight_point_time), Len(rec.weight_point))
    IN  [idx \in 1..n |->
            [name |-> <<name_prefix, idx>>,
             time |-> Round3(process_start_ts + rec.weight_point_time[idx]),
             value |-> rec.weight_point[idx]]]

\* the points of one qualifying record: one per pair of zip(weight_point_time,
\* weight_point), numbered from 1
PointsOf(o, rec, name_prefix) ==
    LET max_dt == MaxOf(rec.weight_point_time)
        process_start_ts == rec.time - max_dt
        n == Min(Len(rec.weight_point_time), Len(rec.weight_point))
    IN  [idx \in 1..n |->
            [name |-> <<name_prefix, idx>>,
             time |-> Round3(process_start_ts + rec.weight_point_time[idx]
                             - o.start_time),
             value |-> rec.weight_point[idx]]]

\* mutant of FetchPointsStep: the bounds of the order interval are excluded
FetchPointsStepOpen(o, rec) ==
    IF ~rec.json_ok THEN Continue(<< >>)
    ELSE IF ~rec.time_ok THEN Raise(<< >>, "ValueError")
    ELSE IF ~(o.start_time < rec.time /\ rec.time < o.end_time)
         THEN Continue(<< >>)
    ELSE IF rec.weight_point_time = <<>> THEN Raise(<< >>, "ValueError")
    ELSE Return(<< >>, PointsOf(o, rec, "Sauce"))

\* body of the loop of fetch_points for one line
FetchPointsStep(o, rec) ==
    IF ~rec.json_ok THEN Continue(<< >>)
    ELSE IF ~rec.time_ok THEN Raise(<< >>, "ValueError")
    ELSE IF ~(o.start_time <= rec.time /\ rec.time <= o.end_time)
         THEN Continue(<< >>)
    ELSE IF rec.weight_point_time = <<>> THEN Raise(<< >>, "ValueError")
    ELSE Return(<< >>, PointsOf(o, rec, "Sauce"))

(***************************************************************************)
(* The two strategies as a state machine: one call, line by line.          *)
(***************************************************************************)
CorrInit ==
    /\ call \in {"fetch_order", "fetch_points"}
    /\ req_id = IF call = "fetch_order" THEN 125 ELSE 0
    /\ order \in (IF call = "fetch_points" THEN Orders ELSE {<< >>})
    /\ order_data = << >>
    /\ clines = <<>>
    /\ ceof = FALSE
    /\ cpc = "scanning"
    /\ cret = <<>>
    /\ cerr = "none"

AfterStep(line, r) ==
    /\ clines' = Append(clines, line)
    /\ order_data' = r.order_data
    /\ cpc' = CASE r.outcome = "continue" -> "scanning"
                [] r.outcome = "return" -> "returned"
                [] OTHER -> "raised"
    /\ cret' = r.value
    /\ cerr' = r.error

\* fetch_order reads one more line of the order-events file
OrderReadLine ==
    /\ UNCHANGED notCorrVars
    /\ call = "fetch_order"
    /\ cpc = "scanning"
    /\ Len(clines) < MaxOrderLines
    /\ \E line \in OrderLines(req_id) :
          AfterStep(line, FetchOrderStep(order_data, line))
    /\ UNCHANGED <<call, req_id, order, ceof>>

\* the order-events file is exhausted
OrderEndOfFile ==
    /\ UNCHANGED notCorrVars
    /\ call = "fetch_order"
    /\ cpc = "scanning"
    /\ ceof' = TRUE
    /\ cpc' = "returned"
    /\ cret' = FallThrough(order_data)
    /\ UNCHANGED <<call, req_id, order, order_data, clines, cerr>>

\* fetch_points reads one more line of the sauce-weight file
SauceReadLine ==
    /\ UNCHANGED notCorrVars
    /\ call = "fetch_points"
    /\ cpc = "scanning"
    /\ Len(clines) < MaxSauceLines
    /\ \E rec \in SauceLines :
          AfterStep(rec, FetchPointsStep(order, rec))
    /\ UNCHANGED <<call, req_id, order, ceof>>

\* the sauce-weight file is exhausted: the empty list is returned
SauceEndOfFile ==
    /\ UNCHANGED notCorrVars
    /\ call = "fetch_points"
    /\ cpc = "scanning"
    /\ ceof' = TRUE
    /\ cpc' = "returned"
    /\ cret' = <<>>
    /\ UNCHANGED <<call, req_id, order, order_data, clines, cerr>>

InitCorrelate ==
    CorrInit /\ LogIdle /\ FinderIdle /\ ReqIdle /\ RepeatIdle /\ SelIdle
             /\ PairIdle

CorrNext == OrderReadLine \/ OrderEndOfFile \/ SauceReadLine \/ SauceEndOfFile

SpecCorrelate == InitCorrelate /\ [][CorrNext]_vars

(***************************************************************************)
(* Properties of the two strategies (checked under SpecCorrelate).         *)
(***************************************************************************)
Last(xs) == xs[Len(xs)]

\* a line of the order-events file that reached the structured parse and was
\* parsed
Parsed(line) == PassesFilters(line) /\ line.when_ok /\ line.json_ok

\* C7: when the order-events file is exhausted without both a new-order
\* marker and a terminal marker observed, fetch_order returns None; so it
\* does when a new-order line was read and no terminal marker followed.
C7_ExhaustedIsNotFound ==
    (/\ call = "fetch_order"
     /\ ceof
     /\ ~({"start_time", "end_time"} \subseteq DOMAIN order_data)) =>
        (cpc = "returned" /\ cret = None)

C7_NewOrderWithoutEnd ==
    /\ call = "fetch_order"
    /\ ceof
    /\ "start_time" \in DOMAIN order_data
    /\ cret = None

\* C8: an order record returned by fetch_order has the requested order
\* identifier as uid, its start_time is the instant of a new-order line of
\* that uid and its end_time the instant of a terminal-marker line of that
\* uid.
C8_MarkersOfSameUid ==
    (call = "fetch_order" /\ cpc = "returned" /\ cret # None) =>
        LET o == cret[1]
        IN  /\ o.uid = req_id
            /\ \E i \in DOMAIN clines :
                  /\ Parsed(clines[i]) /\ clines[i].action_new
                  /\ clines[i].uid = o.uid
                  /\ clines[i].at = o.start_time
            /\ \E j \in DOMAIN clines :
                  /\ Parsed(clines[j]) /\ clines[j].has_end_key
                  /\ clines[j].uid = o.uid
                  /\ clines[j].at = o.end_time

\* a candidate line that is malformed: its payload is no valid JSON or its
\* date/time token does not parse
Malformed(line) ==
    IF call = "fetch_order"
    THEN PassesFilters(line) /\ (~line.when_ok \/ ~line.json_ok)
    ELSE ~line.json_ok \/ ~line.time_ok

\* C9: in both scans a malformed candidate line is skipped and the scan goes
\* on; no malformed line makes the scan fail.
C9_MalformedLineSkipped ==
    (clines # <<>> /\ Malformed(Last(clines))) => cpc # "raised"

StrictlyIncreasing(xs) == \A i \in 1..(Len(xs) - 1) : xs[i] < xs[i + 1]
NeverDecreasing(xs) == \A i \in 1..(Len(xs) - 1) : xs[i] <= xs[i + 1]
WholeMilliseconds(xs) == \A i \in DOMAIN xs : xs[i] % 10 = 0

TimesOf(points) == [i \in DOMAIN points |-> points[i].time]

\* fetch_points returned the points of the record it read last
PointsEmitted == call = "fetch_points" /\ cpc = "returned" /\ ~ceof

\* the example: order interval [100, 200], record at 150 with
\* weight_point_time = [0, 1, 2] and weight_point = [10, 20, 30]
C10_IsExample ==
    /\ order.start_time = Ticks(100) /\ order.end_time = Ticks(200)
    /\ Last(clines) =
          SauceRecord(Ticks(150), <<0, Ticks(1), Ticks(2)>>, <<10, 20, 30>>)

C10_ExamplePoints ==
    C10_IsExample =>
        /\ Len(cret) = 3
        /\ StrictlyIncreasing(TimesOf(cret))
        /\ \A k \in DOMAIN cret : cret[k].time > 0

\* an emitted point of the maximum offset has time
\* record_time - order.start_time, which lies in [0, end_time - start_time]
C10_MaxOffsetPoint ==
    LET rec == Last(clines)
    IN  \A k \in DOMAIN cret :
            rec.weight_point_time[k] = MaxOf(rec.weight_point_time) =>
                /\ cret[k].time = rec.time - order.start_time
                /\ 0 <= cret[k].time
                /\ cret[k].time <= order.end_time - order.start_time

\* C10 as stated: the example yields three points with strictly increasing
\* positive times, and for every qualifying record with strictly increasing
\* offsets the emitted times are strictly increasing and the point at the
\* maximum offset has time record_time - order.start_time.
C10_TimesStrictlyIncreasing ==
    PointsEmitted =>
        /\ C10_ExamplePoints
        /\ StrictlyIncreasing(Last(clines).weight_point_time) =>
              /\ StrictlyIncreasing(TimesOf(cret))
              /\ C10_MaxOffsetPoint

\* C10 amended: the example yields three points with strictly increasing
\* positive times; for every qualifying record with strictly increasing
\* offsets the emitted times never decrease, they are strictly increasing
\* when the offsets are whole milliseconds, and an emitted point of the
\* maximum offset has time record_time - order.start_time.
C10_TimesNeverDecrease ==
    PointsEmitted =>
        /\ C10_ExamplePoints
        /\ StrictlyIncreasing(Last(clines).weight_point_time) =>
              /\ NeverDecreasing(TimesOf(cret))
              /\ WholeMilliseconds(Last(clines).weight_point_time) =>
                    StrictlyIncreasing(TimesOf(cret))
              /\ C10_MaxOffsetPoint

C10_ExampleEmitted ==
    /\ PointsEmitted
    /\ C10_IsExample
    /\ TimesOf(cret) = <<Ticks(48), Ticks(49), Ticks(50)>>

\* line i of the order-events file survived the filters and the parse, and
\* its body carries the terminal marker
TerminalAt(i) == Parsed(clines[i]) /\ clines[i].has_end_key

\* line i is a parsed new-order line
NewOrderAt(i) == Parsed(clines[i]) /\ clines[i].action_new

\* C19: the first surviving line whose body carries the terminal marker
\* ends the scan: no later line is read, and the call returns a record whose
\* end_time is that line's instant and whose start_time is the instant of
\* the most recent new-order line up to it.
C19_TerminalMarkerCompletes ==
    (call = "fetch_order" /\ clines # <<>>) =>
        LET n == Len(clines)
        IN  /\ \A i \in 1..(n - 1) : ~TerminalAt(i)
            /\ TerminalAt(n) =>
                  /\ cpc = "returned"
                  /\ cret # None
                  /\ cret[1].end_time = clines[n].at
                  /\ \E j \in 1..n :
                        /\ NewOrderAt(j)
                        /\ \A k \in (j + 1)..n : ~NewOrderAt(k)
                        /\ cret[1].start_time = clines[j].at

\* the part of C19 the code satisfies: the terminal marker ends the scan,
\* and when a new-order line came before it the record is complete
C19_MarkerEndsScan ==
    (call = "fetch_order" /\ clines # <<>>) =>
        LET n == Len(clines)
        IN  /\ \A i \in 1..(n - 1) : ~TerminalAt(i)
            /\ TerminalAt(n) => cpc # "scanning"
            /\ (TerminalAt(n) /\ \E j \in 1..n : NewOrderAt(j)) =>
                  /\ cpc = "returned"
                  /\ cret # None
                  /\ cret[1].end_time = clines[n].at

\* record i of the sauce-weight file qualifies: it parses and its instant
\* lies in [order.start_time, order.end_time]
Qualifies(i) ==
    /\ clines[i].json_ok
    /\ clines[i].time_ok
    /\ order.start_time <= clines[i].time
    /\ clines[i].time <= order.end_time

\* C20: fetch_points reads no record after the first one whose instant lies
\* in the order interval (bounds included); when it returns, the result is
\* the points of that record, and the empty list if no record qualified.
C20_FirstQualifyingRecord ==
    call = "fetch_points" =>
        LET n == Len(clines)
        IN  /\ \A i \in 1..(n - 1) : ~Qualifies(i)
            /\ cpc = "returned" =>
                  IF n > 0 /\ Qualifies(n)
                  THEN /\ ~ceof
                       /\ cret = PointsOf(order, clines[n], "Sauce")
                       /\ Len(cret) = Min(Len(clines[n].weight_point_time),
                                           Len(clines[n].weight_point))
                  ELSE ceof /\ cret = <<>>

\* a record before the interval was skipped and the record at the end of
\* the interval gave the points
C20_BoundaryRecordEmitted ==
    /\ call = "fetch_points"
    /\ cpc = "returned"
    /\ Len(clines) = 2
    /\ clines[1].json_ok /\ clines[1].time_ok
    /\ clines[1].time < order.start_time
    /\ clines[2].time = order.end_time
    /\ order.start_time < order.end_time
    /\ Len(cret) = 3

\* the time of point k of record rec before rounding:
\* (record_time - max(weight_point_time) + weight_point_time[k])
\* - order.start_time
ExactTime(rec, k) ==
    (rec.time - MaxOf(rec.weight_point_time) + rec.weight_point_time[k])
        - order.start_time

Abs(x) == IF x < 0 THEN -x ELSE x

\* point k of the result is named and valued after pair k of the record
PointOfPair(rec, k) ==
    /\ cret[k].name = <<"Sauce", k>>
    /\ cret[k].value = rec.weight_point[k]

\* C21 as stated: the qualifying record gives as many points as it has
\* offsets; point k is named '<prefix> k', has value weight_point[k] and
\* time (record_time - max(weight_point_time) + weight_point_time[k])
\* - order.start_time.
C21_OnePointPerOffset ==
    PointsEmitted =>
        LET rec == Last(clines)
        IN  /\ Len(cret) = Len(rec.weight_point_time)
            /\ \A k \in DOMAIN cret :
                  /\ PointOfPair(rec, k)
                  /\ cret[k].time = ExactTime(rec, k)

\* C21 amended: the qualifying record gives one point per pair of the
\* zipped arrays, as many as the shorter array has elements; point k is
\* named '<prefix> k', has value weight_point[k] and as time that value
\* rounded to the nearest millisecond.
C21_OnePointPerPair ==
    PointsEmitted =>
        LET rec == Last(clines)
        IN  /\ Len(cret) = Min(Len(rec.weight_point_time),
                                Len(rec.weight_point))
            /\ \A k \in DOMAIN cret :
                  /\ PointOfPair(rec, k)
                  /\ cret[k].time % 10 = 0
                  /\ Abs(cret[k].time - ExactTime(rec, k)) <= 5
                  /\ ExactTime(rec, k) % 10 = 0 =>
                        cret[k].time = ExactTime(rec, k)

\* a record whose offsets are not in increasing order gave its three points
\* in the order of the arrays
C21_ArrayOrderKept ==
    /\ PointsEmitted
    /\ Last(clines).weight_point_time = <<Ticks(2), 0, Ticks(1)>>
    /\ Len(cret) = 3
    /\ cret[1].time > cret[3].time
    /\ cret[3].time > cret[2].time

(***************************************************************************)
(* fetch_order_data and get_order_telemetry (main.py)                      *)
(*                                                                         *)
(* The request runs its sub-operations in the order of the code.  Each     *)
(* sub-operation is taken by its outcomes: what it returns, or the         *)
(* exception it lets out (find_suitable_files, fetch_order and             *)
(* fetch_points as modelled above; the object-storage client of            *)
(* adapters/s3.py re-raises every error of listing and signing).           *)
(***************************************************************************)
ReqOrderId == CHOOSE t \in OrderIds : TRUE

\* the rel path "<subdir>/<date>_<suffix>.txt" of a discovered file
RelFile(sd, sfx) == <<sd, sfx>>

Kinds == {"start_order", "orders", "sauce_weight"}

DiscoverableFiles ==
    {RelFile(k, k) : k \in Kinds} \cup {RelFile("console", "app")}

\* BaseFileSelector.select with PREFIXES = (kind,) and
\* SUFFIXES = ("_<kind>.txt", "_<kind>.txt.gz")
select(fs, kind) ==
    IF \E f \in fs : f[1] = kind /\ f[2] = kind
    THEN Some(CHOOSE f \in fs : f[1] = kind /\ f[2] = kind)
    ELSE None

motor_names ==
    {"truck", "screen", "revolver", "screw", "pump", "lifter", "spade",
     "clearance", "mixer"}

RequiredMetrics == {"velocity", "position", "state"}

\* the series of a start_order record: the pairs <<node, metric>> for which
\* the record holds "<node>_<metric>_time" and "<node>_<metric>_value"
CompleteSeries == motor_names \X RequiredMetrics

SeriesSets ==
    {CompleteSeries \cup {<<"screen", "weight">>},
     CompleteSeries \ {<<"truck", "state">>},
     {<<"screen", "velocity">>, <<"screen", "weight">>},
     {}}

\* the end_time key of a start_order record: absent, null (written None),
\* or an instant
EndTimeFields ==
    {[has |-> FALSE, val |-> None],
     [has |-> TRUE, val |-> None],
     [has |-> TRUE, val |-> Some(ReqOrderId + 30)]}

\* the start_order records fetch_telemetry_data may return for the order;
\* types_ok: the values of the series are of the types the schema accepts
TelemetryRecords ==
    [start_time : {Some(ReqOrderId)}, end_time : EndTimeFields,
     series : SeriesSets, types_ok : BOOLEAN]

\* what find_suitable_files does: it returns a mapping or raises
DiscoveryOutcomes ==
    [kind : {"return"}, value : SUBSET DiscoverableFiles, error : {"none"}]
    \cup [kind : {"raise"}, value : {{}},
          error : {"FileNotFoundError", "ValueError"}]

\* what fetch_order does: it returns None or an order, or raises
FetchOrderOutcomes ==
    [kind : {"return"},
     value : {None, Some([uid |-> ReqOrderId, start_time |-> ReqOrderId + 1,
                          end_time |-> ReqOrderId + 40])},
     error : {"none"}]
    \cup [kind : {"raise"}, value : {None},
          error : {"ValueError", "KeyError", "ValidationError"}]

\* what fetch_points does: it returns a list of points or raises
FetchPointsOutcomes ==
    [kind : {"return"}, value : {<<>>, <<"Sauce 1", "Sauce 2">>},
     error : {"none"}]
    \cup [kind : {"raise"}, value : {<<>>}, error : {"ValueError"}]

\* the object storage at the time of the request: what listing the videos
\* folder does (it raises, or the keys hold a video within the tolerance or
\* none) and what signing a URL does
StorageStates ==
    [list : {"error", "no_match", "match"}, sign : {"ok", "error"}]

\* find_video_file: listing is outside the try, signing inside it
find_video_file(st) ==
    IF st.list = "error"
    THEN [kind |-> "raise", value |-> None, error |-> "S3Error",
          failure |-> "list"]
    ELSE IF st.list = "no_match"
    THEN [kind |-> "return", value |-> None, error |-> "none",
          failure |-> "none"]
    ELSE IF st.sign = "error"
    THEN [kind |-> "return", value |-> None, error |-> "none",
          failure |-> "sign"]
    ELSE [kind |-> "return", value |-> Some("presigned_url"),
          error |-> "none", failure |-> "none"]

\* order_telemetry.get("end_time", 0.0): None stands for the null value
EndOrderTs(rec) == IF rec.end_time.has THEN rec.end_time.val ELSE Some(0)

\* one time series of a motor: .get(key, list())
SeriesOf(rec, motor, metric) ==
    IF <<motor, metric>> \in rec.series THEN "data" ELSE "empty"

\* the loop over motor_names: every name gets an entry
ComposeMotors(rec) ==
    [motor \in motor_names |->
        [velocity |-> SeriesOf(rec, motor, "velocity"),
         position |-> SeriesOf(rec, motor, "position"),
         state |-> SeriesOf(rec, motor, "state"),
         weight |-> IF <<motor, "weight">> \in rec.series
                    THEN Some("data") ELSE None]]

ReqInit ==
    /\ found_files = {}
    /\ order_telemetry = None
    /\ order_info = None
    /\ sauce_points = <<>>
    /\ video_url = None
    /\ video_failure = "none"
    /\ log_window = None
    /\ all_order_logs = {}
    /\ motors = << >>
    /\ qpc = "discover"
    /\ response = "pending"
    /\ qerr = "none"

\* fetch_order_data returned None: get_order_telemetry answers 404
NotFound ==
    /\ qpc' = "done"
    /\ response' = "not_found"
    /\ qerr' = "none"

\* an exception left fetch_order_data and get_order_telemetry
Raised(e) ==
    /\ qpc' = "done"
    /\ response' = "raised"
    /\ qerr' = e

Goto(step) ==
    /\ qpc' = step
    /\ UNCHANGED <<response, qerr>>

\* files = find_suitable_files(...); if not files: return None
Discover ==
    /\ UNCHANGED notReqVars
    /\ qpc = "discover"
    /\ \E out \in DiscoveryOutcomes :
        /\ found_files' = out.value
        /\ IF out.kind = "raise" THEN Raised(out.error)
           ELSE IF out.value = {} THEN NotFound
           ELSE Goto("telemetry")
    /\ UNCHANGED <<order_telemetry, order_info, sauce_points, video_url,
                   video_failure, log_window, all_order_logs, motors>>

\* the telemetry file is selected and the order's record is looked up
FetchTelemetry ==
    /\ UNCHANGED notReqVars
    /\ qpc = "telemetry"
    /\ IF select(found_files, "start_order") = None
       THEN NotFound /\ UNCHANGED order_telemetry
       ELSE \E rec \in {None} \cup {Some(r) : r \in TelemetryRecords} :
               /\ order_telemetry' = rec
               /\ IF rec = None THEN NotFound ELSE Goto("order")
    /\ UNCHANGED <<found_files, order_info, sauce_points, video_url,
                   video_failure, log_window, all_order_logs, motors>>

\* the orders file is selected and the order is correlated; the times of the
\* order record replace those of the telemetry record
FetchOrder ==
    /\ UNCHANGED notReqVars
    /\ qpc = "order"
    /\ IF select(found_files, "orders") = None
       THEN /\ Goto("sauce")
            /\ UNCHANGED <<order_info, order_telemetry>>
       ELSE \E out \in FetchOrderOutcomes :
               /\ order_info' = out.value
               /\ IF out.kind = "raise"
                  THEN Raised(out.error) /\ UNCHANGED order_telemetry
                  ELSE /\ Goto("sauce")
                       /\ order_telemetry' =
                            IF out.value = None THEN order_telemetry
                            ELSE Some([order_telemetry[1] EXCEPT
                                   !.start_time = Some(out.value[1].start_time),
                                   !.end_time =
                                       [has |-> TRUE,
                                        val |-> Some(out.value[1].end_time)]])
    /\ UNCHANGED <<found_files, sauce_points, video_url, video_failure,
                   log_window, all_order_logs, motors>>

\* the sauce-weight file is selected and, with an order record, correlated
FetchSauce ==
    /\ UNCHANGED notReqVars
    /\ qpc = "sauce"
    /\ IF select(found_files, "sauce_weight") # None /\ order_info # None
       THEN \E out \in FetchPointsOutcomes :
               /\ sauce_points' = out.value
               /\ IF out.kind = "raise" THEN Raised(out.error)
                  ELSE Goto("video")
       ELSE Goto("video") /\ UNCHANGED sauce_points
    /\ UNCHANGED <<found_files, order_telemetry, order_info, video_url,
                   video_failure, log_window, all_order_logs, motors>>

\* video_url = find_video_file(machine_id, order_id)
FindVideo ==
    /\ UNCHANGED notReqVars
    /\ qpc = "video"
    /\ \E st \in StorageStates :
        LET out == find_video_file(st)
        IN  /\ video_url' = out.value
            /\ video_failure' = out.failure
            /\ IF out.kind = "raise" THEN Raised(out.error)
               ELSE Goto("logs")
    /\ UNCHANGED <<found_files, order_telemetry, order_info, sauce_points,
                   log_window, all_order_logs, motors>>

\* end_order_ts is read and fetch_all_order_logs called: the window is
\* computed before any file is opened; a file whose read fails gets no entry
FetchLogs ==
    /\ UNCHANGED notReqVars
    /\ qpc = "logs"
    /\ LET end_ts == EndOrderTs(order_telemetry[1])
       IN  IF end_ts = None
           THEN /\ Raised("TypeError")
                /\ UNCHANGED <<log_window, all_order_logs>>
           ELSE /\ log_window' = Some(<<ReqOrderId - 5, end_ts[1] + 5>>)
                /\ \E failed \in SUBSET found_files :
                      all_order_logs' = found_files \ failed
                /\ Goto("compose")
    /\ UNCHANGED <<found_files, order_telemetry, order_info, sauce_points,
                   video_url, video_failure, motors>>

\* the motors are composed and the OrderTelemetry is built; a validation
\* error is caught and None returned
Compose ==
    /\ UNCHANGED notReqVars
    /\ qpc = "compose"
    /\ motors' = ComposeMotors(order_telemetry[1])
    /\ qpc' = "done"
    /\ qerr' = "none"
    /\ response' = IF order_telemetry[1].types_ok THEN "aggregate"
                   ELSE "not_found"
    /\ UNCHANGED <<found_files, order_telemetry, order_info, sauce_points,
                   video_url, video_failure, log_window, all_order_logs>>

\* the fields of the OrderTelemetry returned
VideoPath == IF video_url = None THEN "" ELSE video_url[1]

InitRequest ==
    ReqInit /\ LogIdle /\ FinderIdle /\ CorrIdle /\ RepeatIdle /\ SelIdle
            /\ PairIdle

ReqNext ==
    Discover \/ FetchTelemetry \/ FetchOrder \/ FetchSauce \/ FindVideo
        \/ FetchLogs \/ Compose

SpecRequest == InitRequest /\ [][ReqNext]_vars

(***************************************************************************)
(* Properties of the order-telemetry request (checked under SpecRequest).  *)
(***************************************************************************)
\* C11: when listing the videos or signing the URL raised, the request is
\* not aborted: no exception leaves it, and the aggregate it returns has an
\* empty video_path.
C11_StorageFailureNotFatal ==
    video_failure # "none" =>
        /\ response # "raised"
        /\ response = "aggregate" => VideoPath = ""

\* the signing half of C11, which the code satisfies: a failure of signing
\* is caught inside find_video_file
C11_SigningFailureNotFatal ==
    video_failure = "sign" =>
        /\ qerr # "S3Error"
        /\ response = "aggregate" => VideoPath = ""

\* the request is 'not found' for one of the three reasons of C12
NotFoundReason ==
    \/ found_files = {}
    \/ select(found_files, "start_order") = None
    \/ order_telemetry = None

\* C12: fetch_order_data ends as 'not found' or as an aggregate and never
\* with a raised error; it is 'not found' exactly when discovery is empty,
\* no telemetry file is selected or no telemetry record matches.
C12_NotFoundOrAggregate ==
    qpc = "done" =>
        /\ response \in {"not_found", "aggregate"}
        /\ response = "not_found" <=> NotFoundReason

\* C13: the window handed to log extraction has window_start <= window_end.
C13_WindowOrdered ==
    log_window # None => log_window[1][1] <= log_window[1][2]

\* C14: a node is in the motors map of the response only if the telemetry
\* record holds its velocity, position and state series.
C14_OnlyCompleteNodes ==
    response = "aggregate" =>
        \A motor \in DOMAIN motors :
            \A metric \in RequiredMetrics :
                <<motor, metric>> \in order_telemetry[1].series

(***************************************************************************)
(* One call made twice on an unchanged source file: extract_log_window     *)
(* (the extractor's, and the loop body of main.fetch_all_order_logs for    *)
(* the next file of the mapping), fetch_order and fetch_points.  Each call *)
(* starts from the locals the code gives it and reads the file from its    *)
(* first line.                                                             *)
(***************************************************************************)
\* longest source file of a repeated call
MaxRepeatLen == 2

SeqsUpTo(S, n) == UNION {[1..k -> S] : k \in 0..n}

RepeatKinds == {"extractor", "main", "fetch_order", "fetch_points"}

IsExtraction(kind) == kind \in {"extractor", "main"}

\* the arguments of a call of each kind (the fields a kind does not take
\* are left empty)
RepeatArgs(kind) ==
    IF IsExtraction(kind)
    THEN [rel : RelPaths, id : OrderIds, order : {<< >>}]
    ELSE IF kind = "fetch_order"
    THEN [rel : {<<>>}, id : {125}, order : {<< >>}]
    ELSE [rel : {<<>>}, id : {0}, order : Orders]

\* the lines a source file of a call may hold
RepeatLines(kind, args) ==
    IF IsExtraction(kind) THEN LinesOf(args.rel, args.id, TRUE)
    ELSE IF kind = "fetch_order" THEN OrderLines(args.id)
    ELSE SauceLines

\* the locals of a call that no call preceded
NothingLeft(kind) == IF IsExtraction(kind) THEN FreshScan ELSE <<>>

\* mutant of LocalsAtCall: a call goes on with what the previous call left
LocalsKept(kind, previous) == previous

\* the locals at the start of a call, whatever the previous call left:
\* lines_in_window, last_ts, found_any_ts (and the counters of the reader);
\* order_data = dict(); points = list()
LocalsAtCall(kind, previous) ==
    IF IsExtraction(kind) THEN FreshScan ELSE <<>>

RepeatInit ==
    /\ rkind \in RepeatKinds
    /\ rargs \in RepeatArgs(rkind)
    /\ rfile \in SeqsUpTo(RepeatLines(rkind, rargs), MaxRepeatLen)
    /\ rpos = 0
    /\ rlocals = LocalsAtCall(rkind, NothingLeft(rkind))
    /\ rrunning = TRUE
    /\ routs = <<>>

\* what one more line does to the locals of the call, and whether the call
\* goes on: [locals, ended, output]
RepeatLineStep(kind, args, locals, line) ==
    IF IsExtraction(kind)
    THEN LET s == IF kind = "extractor"
                  THEN ExtractorStep(locals, line, args.id - 5, args.id + 5,
                                     OffsetHours(args.rel))
                  ELSE MainStep(locals, line, args.id - 5, args.id + 5,
                                OffsetHours(args.rel))
         IN  [locals |-> s, ended |-> s.stop,
              output |-> Entry(args.rel, ScanText(s))]
    ELSE IF kind = "fetch_order"
    THEN LET r == FetchOrderStep(locals, line)
         IN  [locals |-> r.order_data, ended |-> r.outcome # "continue",
              output |-> [outcome |-> r.outcome, value |-> r.value,
                          error |-> r.error]]
    ELSE LET r == FetchPointsStep(args.order, line)
             points == locals \o r.value
         IN  [locals |-> points, ended |-> r.outcome # "continue",
              output |-> [outcome |-> r.outcome, value |-> points,
                          error |-> r.error]]

\* the output of a call whose file is exhausted
RepeatEndOutput(kind, args, locals) ==
    IF IsExtraction(kind) THEN Entry(args.rel, ScanText(locals))
    ELSE IF kind = "fetch_order"
    THEN [outcome |-> "return", value |-> FallThrough(locals),
          error |-> "none"]
    ELSE [outcome |-> "return", value |-> locals, error |-> "none"]

\* the running call reads the next line of the file
RepeatReadLine ==
    /\ UNCHANGED notRepeatVars
    /\ rrunning
    /\ rpos < Len(rfile)
    /\ LET r == RepeatLineStep(rkind, rargs, rlocals, rfile[rpos + 1])
       IN  /\ rlocals' = r.locals
           /\ rpos' = rpos + 1
           /\ rrunning' = ~r.ended
           /\ routs' = IF r.ended THEN Append(routs, r.output) ELSE routs
    /\ UNCHANGED <<rkind, rargs, rfile>>

\* the running call finds the file exhausted
RepeatEndOfFile ==
    /\ UNCHANGED notRepeatVars
    /\ rrunning
    /\ rpos = Len(rfile)
    /\ rrunning' = FALSE
    /\ routs' = Append(routs, RepeatEndOutput(rkind, rargs, rlocals))
    /\ UNCHANGED <<rkind, rargs, rfile, rpos, rlocals>>

\* the same call is made again
CallAgain ==
    /\ UNCHANGED notRepeatVars
    /\ ~rrunning
    /\ Len(routs) = 1
    /\ rlocals' = LocalsAtCall(rkind, rlocals)
    /\ rpos' = 0
    /\ rrunning' = TRUE
    /\ UNCHANGED <<rkind, rargs, rfile, routs>>

InitRepeat ==
    RepeatInit /\ LogIdle /\ FinderIdle /\ CorrIdle /\ ReqIdle /\ SelIdle
               /\ PairIdle

RepeatNext == RepeatReadLine \/ RepeatEndOfFile \/ CallAgain

SpecRepeat == InitRepeat /\ [][RepeatNext]_vars

MaxMapping == 3

StartsWith(rel, pre) ==
    Len(pre) <= Len(rel) /\ SubSeq(rel, 1, Len(pre)) = pre

EndsWith(rel, suf) ==
    /\ Len(suf) <= Len(rel)
    /\ SubSeq(rel, Len(rel) - Len(suf) + 1, Len(rel)) = suf

Selectors ==
    {"BaseFileSelector", "TelemetryFileSelector", "OrderFileSelector",
     "SauceWeightFileSelector"}

\* the class attribute PREFIXES of each selector
PREFIXES(cls) ==
    CASE cls = "TelemetryFileSelector" -> {<<"start_order">>}
      [] cls = "OrderFileSelector" -> {<<"orders">>}
      [] cls = "SauceWeightFileSelector" -> {<<"sauce_weight">>}
      [] OTHER -> {}

\* the class attribute SUFFIXES of each selector
SUFFIXES(cls) ==
    CASE cls = "TelemetryFileSelector" ->
            {<<"_start_order.txt">>, <<"_start_order.txt", ".gz">>}
      [] cls = "OrderFileSelector" ->
            {<<"_orders.txt">>, <<"_orders.txt", ".gz">>}
      [] cls = "SauceWeightFileSelector" ->
            {<<"_sauce_weight.txt">>, <<"_sauce_weight.txt", ".gz">>}
      [] OTHER -> {}

\* mutant of prefix_ok: an empty PREFIXES lets no path pass
prefix_okStrict(cls, rel_path) ==
    \E pre \in PREFIXES(cls) : StartsWith(rel_path, pre)

\* prefix_ok = not self.PREFIXES or rel_path.startswith(self.PREFIXES)
prefix_ok(cls, rel_path) ==
    \/ PREFIXES(cls) = {}
    \/ \E pre \in PREFIXES(cls) : StartsWith(rel_path, pre)

\* suffix_ok = not self.SUFFIXES or rel_path.endswith(self.SUFFIXES)
suffix_ok(cls, rel_path) ==
    \/ SUFFIXES(cls) = {}
    \/ \E suf \in SUFFIXES(cls) : EndsWith(rel_path, suf)

\* the relative paths a mapping may hold
SelPaths ==
    {<<"start_order", "/", "d1", "_start_order.txt">>,
     <<"start_order", "/", "d1", "_start_order.txt", ".gz">>,
     <<"start_order", "_old", "/", "d1", "_start_order.txt">>,
     <<"start_order", "/", "d1", "_start_order.txt", ".bak">>,
     <<"orders", "/", "d1", "_start_order.txt">>,
     <<"orders", "/", "d1", "_orders.txt">>,
     <<"sauce_weight", "/", "d1", "_sauce_weight.txt", ".gz">>}

\* the Path stored under a relative path
SelPathOf(rel) == <<"DATA_DIR", "logs">> \o rel

SelEntry(rel) == [rel_path |-> rel, path |-> SelPathOf(rel)]

\* files: dict[str, Path], its keys distinct, in iteration order
SelMappings ==
    UNION {{m \in [1..n -> {SelEntry(r) : r \in SelPaths}] :
              \A i, j \in 1..n : m[i] = m[j] => i = j} : n \in 0..MaxMapping}

SelInit ==
    /\ selector \in Selectors
    /\ sfiles \in SelMappings
    /\ spos = 0
    /\ spc = "loop"
    /\ sret = <<>>

\* one turn of the for loop over files.items()
SelectVisit ==
    /\ UNCHANGED notSelVars
    /\ spc = "loop"
    /\ spos < Len(sfiles)
    /\ spos' = spos + 1
    /\ LET e == sfiles[spos + 1]
       IN  IF prefix_ok(selector, e.rel_path) /\ suffix_ok(selector, e.rel_path)
           THEN spc' = "returned" /\ sret' = Some(e.path)
           ELSE UNCHANGED <<spc, sret>>
    /\ UNCHANGED <<selector, sfiles>>

\* the loop ended without a return: return None
SelectNone ==
    /\ UNCHANGED notSelVars
    /\ spc = "loop"
    /\ spos = Len(sfiles)
    /\ spc' = "returned"
    /\ sret' = None
    /\ UNCHANGED <<selector, sfiles, spos>>

InitSelect ==
    SelInit /\ LogIdle /\ FinderIdle /\ CorrIdle /\ ReqIdle /\ RepeatIdle
            /\ PairIdle

SelNext == SelectVisit \/ SelectNone

SpecSelect == InitSelect /\ [][SelNext]_vars

(***************************************************************************)
(* Property of select (checked under SpecSelect).                          *)
(***************************************************************************)
\* the first piece of rel is one of the words
FirstPieceIn(rel, words) == rel[1] \in words

\* rel ends with the piece, or with the piece followed by ".gz"
TailIs(rel, piece) ==
    \/ rel[Len(rel)] = piece
    \/ Len(rel) >= 2 /\ rel[Len(rel)] = ".gz" /\ rel[Len(rel) - 1] = piece

\* the entries a selector accepts, told from the path alone
Accepts(cls, rel) ==
    CASE cls = "BaseFileSelector" -> TRUE
      [] cls = "TelemetryFileSelector" ->
            FirstPieceIn(rel, {"start_order"}) /\ TailIs(rel, "_start_order.txt")
      [] cls = "OrderFileSelector" ->
            FirstPieceIn(rel, {"orders"}) /\ TailIs(rel, "_orders.txt")
      [] cls = "SauceWeightFileSelector" ->
            FirstPieceIn(rel, {"sauce_weight"})
            /\ TailIs(rel, "_sauce_weight.txt")

AcceptedAt(cls, m) == {i \in 1..Len(m) : Accepts(cls, m[i].rel_path)}

\* C22: select returns the path of the first entry, in the iteration order
\* of the mapping, whose relative path starts with one of PREFIXES (any
\* path when PREFIXES is empty) and ends with one of SUFFIXES (any path
\* when SUFFIXES is empty); it returns None when no entry qualifies, and
\* whatever it returns is a value of the mapping.
C22_FirstQualifyingEntry ==
    spc = "returned" =>
        LET ok == AcceptedAt(selector, sfiles)
        IN  /\ ok = {} => sret = None
            /\ ok # {} =>
                 \E i \in ok :
                    /\ \A j \in ok : i <= j
                    /\ sret = Some(sfiles[i].path)
            /\ sret # None =>
                 \E i \in 1..Len(sfiles) : sret[1] = sfiles[i].path

\* a selector with prefixes and suffixes returned the second entry of three:
\* the first did not qualify, and the third would have qualified too
C22_SecondOfThreeSelected ==
    /\ spc = "returned"
    /\ selector = "TelemetryFileSelector"
    /\ Len(sfiles) = 3
    /\ spos = 2
    /\ sret = Some(sfiles[2].path)
    /\ Accepts(selector, sfiles[3].rel_path)

(***************************************************************************)
(* Property of the offset (checked under SpecLogs).                        *)
(***************************************************************************)
\* the lines of the current file that reached the scan and carry a
\* timestamp that parses
StampedUpTo(n) == {i \in 1..n : file_lines[i].tok = "ts"}

\* seconds added to the written epoch value of a line of file rel
ShiftOf(rel) ==
    IF rel[1] = "subapps" \/ rel[1] = "console" THEN 28800 ELSE 0

\* C23: the timestamp compared against the window is the written epoch
\* value plus 28800 seconds for a file under subapps/ or console/ and the
\* written value itself for any other file, whichever line of the file it
\* comes from.
C23_OffsetByPath ==
    LET stamped == StampedUpTo(scan.yielded)
    IN  IF stamped = {}
        THEN scan.last_ts = None
        ELSE \E i \in stamped :
                /\ \A j \in stamped : j <= i
                /\ scan.last_ts = Some(file_lines[i].at + ShiftOf(LastRel))

\* two timestamps of a file under console/ were compared, each 28800
\* seconds later than written, and the second lies in the window
C23_ConsoleLinesShifted ==
    /\ lpc = "scanning"
    /\ CurRel[1] = "console"
    /\ scan.yielded = 2
    /\ file_lines[1].tok = "ts"
    /\ file_lines[2].tok = "ts"
    /\ file_lines[1].at # file_lines[2].at
    /\ scan.last_ts = Some(file_lines[2].at + 28800)
    /\ scan.lines_in_window = <<file_lines[2]>>

(***************************************************************************)
(* The two implementations of fetch_all_order_logs on one input: the same  *)
(* order start, order end and mapping, and the same lines in every file.   *)
(* scan and result are those of log_window_extractor.py, main_scan and     *)
(* main_result those of main.py.  No read raises.                          *)
(***************************************************************************)
\* the order ends at its start, or (a wrong end time) 20 seconds before it
EndTimes(t) == {t, t - 20}

PairInit ==
    /\ impl = "both"
    /\ order_id \in OrderIds
    /\ end_order_ts \in EndTimes(order_id)
    /\ log_files \in Mappings
    /\ fidx = 1
    /\ result = << >>
    /\ lpc = IF log_files = <<>> THEN "done" ELSE "next_file"
    /\ file_lines = <<>>
    /\ scan = FreshScan
    /\ raised = << >>
    /\ main_scan = FreshScan
    /\ main_result = << >>
    /\ over_ceiling = {}

\* the file is longer than iter_lines_with_limits reads
OverCeiling(lines) ==
    \/ Len(lines) > MAX_LINES_PER_FILE
    \/ SumLen(lines) > MAX_BYTES_PER_FILE

\* both scans of the current file are over: each stores its entry
PairFinishFile(sx, sm) ==
    /\ result' = Put(result, CurRel, Entry(CurRel, ScanText(sx)))
    /\ main_result' = Put(main_result, CurRel, Entry(CurRel, ScanText(sm)))
    /\ fidx' = fidx + 1
    /\ lpc' = AfterFile

\* both implementations take the next file of the mapping and open it
PairOpenFile ==
    /\ UNCHANGED notPairVars
    /\ lpc = "next_file"
    /\ fidx <= Len(log_files)
    /\ lpc' = "scanning"
    /\ scan' = FreshScan
    /\ main_scan' = FreshScan
    /\ file_lines' = <<>>
    /\ UNCHANGED <<impl, order_id, end_order_ts, log_files, fidx, result,
                   raised, main_result, over_ceiling>>

\* the file holds one more line: each implementation whose loop is still
\* running reads it
PairReadLine ==
    /\ UNCHANGED notPairVars
    /\ lpc = "scanning"
    /\ Len(file_lines) < FileCap
    /\ ~(scan.stop /\ main_scan.stop)
    /\ \E line \in LinesOf(CurRel, order_id, Len(log_files) > 1) :
        LET sx == IF scan.stop THEN scan
                  ELSE ExtractorStep(scan, line, window_start, window_end,
                                     OffsetHours(CurRel))
            sm == IF main_scan.stop THEN main_scan
                  ELSE MainStep(main_scan, line, window_start, window_end,
                                OffsetHours(CurRel))
        IN  /\ file_lines' = Append(file_lines, line)
            /\ over_ceiling' =
                 IF OverCeiling(Append(file_lines, line))
                 THEN over_ceiling \cup {CurRel}
                 ELSE over_ceiling
            /\ scan' = sx
            /\ main_scan' = sm
            /\ IF sx.stop /\ sm.stop
               THEN PairFinishFile(sx, sm)
               ELSE UNCHANGED <<fidx, result, main_result, lpc>>
    /\ UNCHANGED <<impl, order_id, end_order_ts, log_files, raised>>

\* the file is exhausted
PairEndOfFile ==
    /\ UNCHANGED notPairVars
    /\ lpc = "scanning"
    /\ PairFinishFile(scan, main_scan)
    /\ UNCHANGED <<impl, order_id, end_order_ts, log_files, file_lines,
                   raised, scan, main_scan, over_ceiling>>

InitPair ==
    PairInit /\ FinderIdle /\ CorrIdle /\ ReqIdle /\ RepeatIdle /\ SelIdle

PairNext == PairOpenFile \/ PairReadLine \/ PairEndOfFile

SpecPair == InitPair /\ [][PairNext]_vars

(***************************************************************************)
(* Property of the two implementations (checked under SpecPair).           *)
(***************************************************************************)
\* C24: for the same order start, order end and mapping, and files that
\* stay under the byte and line ceilings and are read without error, the
\* two implementations of fetch_all_order_logs return the same keys and,
\* under every key, the same path and the same encoded text.
C24_SameResult ==
    /\ DOMAIN result = DOMAIN main_result
    /\ \A rel \in DOMAIN result \ over_ceiling :
          /\ result[rel].path = main_result[rel].path
          /\ result[rel].text = main_result[rel].text

\* both implementations returned the same two entries, no file went over a
\* ceiling: one file gave a window of a stamped line and its continuation,
\* and the scan of the other was left by a break in both implementations
C24_BothReturned ==
    /\ lpc = "done"
    /\ over_ceiling = {}
    /\ Len(log_files) = 2
    /\ DOMAIN result = Range(log_files)
    /\ main_result = result
    /\ scan.stop /\ main_scan.stop
    /\ result[log_files[2]].text.b64.kind = "no_window"
    /\ result[log_files[1]].text.b64.kind = "window"
    /\ Len(result[log_files[1]].text.b64.lines) = 2
    /\ result[log_files[1]].text.b64.lines[2].tok = "text"

====
